---- MODULE Spec2Model ----
(***************************************************************************)
(* Model of the multi-site scraping engine of backend/app/services/        *)
(* scraper.py: the RateLimiter, site detection, selector-fallback          *)
(* extraction and the scrape_job / scrape_multiple_jobs entry points.      *)
(*                                                                         *)
(* Time is counted in ticks.  TicksPerHour ticks make one hour, so         *)
(* timedelta(hours=1) is HOUR ticks and a calendar day is DAY = 24 * HOUR  *)
(* ticks; datetime.date() of an instant t is Date(t) = t \div DAY.  The    *)
(* jitter bounds min_delay / max_delay of a ScrapingConfig are given in    *)
(* ticks as well (the code divides milliseconds by 1000 to get seconds).   *)
(***************************************************************************)
EXTENDS Integers, Sequences, FiniteSets, TLC

VARIABLES
    config,           \* the ScrapingConfig handed to the RateLimiter
    clock,            \* real time (what datetime.now() returns), in ticks
    request_history,  \* RateLimiter.request_history
    daily_requests,   \* RateLimiter.daily_requests
    last_reset,       \* RateLimiter.last_reset (a date)
    pc,               \* pc[p]: where caller p stands inside wait_if_needed
    now,              \* now[p]: the local variable now of caller p's call
    wake,             \* wake[p]: the instant at which p's current sleep ends
    cur,              \* cur[p]: bookkeeping of caller p's call in progress
    log,              \* finished wait_if_needed calls, in order of completion
    job_url,          \* the URL handed to detect_job_site / to the scrape
    site_key,         \* what detect_job_site returned for job_url
    selectors,        \* the selector list handed to the extraction
    dom,              \* dom[s]: what the page answers for selector s
    extracted,        \* what the extraction returned
    modal_page,       \* what the page answers to the operations of close_modals
    closed,           \* what close_modals did and returned
    platform,         \* sys.platform: "win32" or "linux"
    api,              \* the entry point in progress and its arguments
    spc,              \* where the scrape in progress stands
    session,          \* the JobSiteScraper's browser session
    page,             \* what the browser page shows after page.goto
    ops,              \* page operations done by the scrape_job_description
                      \* call in progress
    result,           \* what that call returns, or the exception it raises
    results,          \* scrape_multiple_jobs: the list results
    calls,            \* a summary of each finished scrape_job /
                      \* scrape_multiple_jobs call, in order
    last              \* what the last finished call returned

lvars == <<config, clock, request_history, daily_requests, last_reset,
           pc, now, wake, cur, log>>

dvars == <<job_url, site_key>>
xvars == <<selectors, dom, extracted, modal_page, closed>>
svars == <<platform, api, spc, session, page, ops, result, results, calls,
           last>>
vars == <<lvars, dvars, xvars, svars>>

----------------------------------------------------------------------------
(* Bounds of the model *)

TicksPerHour == 2
MaxRph == 2
MaxDaily == 3
MaxJitter == 1
MaxCalls == 4
Lead == 2
Horizon == 4
MaxAuthority == 2
MaxSelectors == 3
MaxScrapes == 2
MaxUrls == 2
MaxVisits == 2

HOUR == TicksPerHour
DAY == 24 * HOUR

Callers == {1, 2}

DateNeverChanging(t) == 0
Date(t) == t \div DAY

\* ScrapingConfig: the fields the rate limiter reads, and the proxy settings
\* at their defaults
Configs ==
    { c \in [min_delay : 0..MaxJitter, max_delay : 0..MaxJitter,
             requests_per_hour : 1..MaxRph, max_daily_requests : 0..MaxDaily,
             use_proxy : {FALSE}, proxy_list : {<<>>}] :
        c.min_delay <= c.max_delay }

StartTimes == (DAY - Lead)..DAY
MaxTime == DAY + Horizon

----------------------------------------------------------------------------
(* RateLimiter *)

RECURSIVE MinOf(_)
MinOf(h) ==
    IF Len(h) = 1 THEN h[1]
    ELSE LET m == MinOf(Tail(h)) IN IF h[1] < m THEN h[1] ELSE m

RECURSIVE MaxOf(_)
MaxOf(h) ==
    IF Len(h) = 1 THEN h[1]
    ELSE LET m == MaxOf(Tail(h)) IN IF h[1] > m THEN h[1] ELSE m

\* line 94-95: keep the timestamps younger than one hour
InWindowKeepAll(h, t) == h
InWindow(h, t) == SelectSeq(h, LAMBDA x : x > t - HOUR)

\* line 90: the daily ceiling test
DailyLimitReachedOffByOne(count, c) == count > c.max_daily_requests
DailyLimitNeverReached(count, c) == FALSE
DailyLimitReached(count, c) == count >= c.max_daily_requests

\* line 98-99: the hourly wait for a full window
HourlyWaitNewest(h, t) == (MaxOf(h) + HOUR) - t
HourlyWait(h, t) == (MinOf(h) + HOUR) - t

NoCall == [pre |-> <<>>, wait |-> 0, resumed |-> 0, delay |-> 0]

LimiterInit ==
    /\ config \in Configs
    /\ clock \in StartTimes
    /\ request_history = <<>>
    /\ daily_requests = 0
    /\ last_reset = Date(clock)
    /\ pc = [p \in Callers |-> "idle"]
    /\ now = [p \in Callers |-> 0]
    /\ wake = [p \in Callers |-> 0]
    /\ cur = [p \in Callers |-> NoCall]
    /\ log = <<>>

Finished(p, t, outcome, c) ==
    [caller |-> p, start |-> t, outcome |-> outcome, pre |-> c.pre,
     wait |-> c.wait, resumed |-> c.resumed, delay |-> c.delay, ret |-> clock]

\* a wait_if_needed that drops the stale instants before the ceiling test
EnterEvictingFirst(p) ==
    /\ pc[p] = "idle"
    /\ Len(log) + Cardinality({q \in Callers : pc[q] # "idle"}) < MaxCalls
    /\ now' = [now EXCEPT ![p] = clock]
    /\ LET t == clock
           rolled == Date(t) > last_reset
           count == IF rolled THEN 0 ELSE daily_requests
           hist == InWindow(request_history, t)
           full == Len(hist) >= config.requests_per_hour
           wt == IF full THEN HourlyWait(hist, t) ELSE 0
           c0 == [NoCall EXCEPT !.pre = request_history, !.resumed = t]
       IN  /\ last_reset' = IF rolled THEN Date(t) ELSE last_reset
           /\ IF DailyLimitReached(count, config)
                THEN /\ daily_requests' = count
                     /\ request_history' = hist
                     /\ pc' = pc
                     /\ wake' = wake
                     /\ cur' = cur
                     /\ log' = Append(log, Finished(p, t, "rejected", c0))
                ELSE /\ daily_requests' = count
                     /\ request_history' = hist
                     /\ log' = log
                     /\ IF full /\ wt > 0
                          THEN /\ pc' = [pc EXCEPT ![p] = "hourly_sleep"]
                               /\ wake' = [wake EXCEPT ![p] = t + wt]
                               /\ cur' = [cur EXCEPT ![p] = [c0 EXCEPT !.wait = wt]]
                          ELSE \E d \in config.min_delay..config.max_delay :
                               /\ pc' = [pc EXCEPT ![p] = "jitter_sleep"]
                               /\ wake' = [wake EXCEPT ![p] = t + d]
                               /\ cur' = [cur EXCEPT ![p] = [c0 EXCEPT !.delay = d]]
    /\ UNCHANGED <<config, clock>>

\* wait_if_needed, lines 84-102: from the call to its first suspension
\* (or to the raise of the daily-limit error)
Enter(p) ==
    /\ pc[p] = "idle"
    /\ Len(log) + Cardinality({q \in Callers : pc[q] # "idle"}) < MaxCalls
    /\ now' = [now EXCEPT ![p] = clock]
    /\ LET t == clock
           rolled == Date(t) > last_reset
           count == IF rolled THEN 0 ELSE daily_requests
           hist == InWindow(request_history, t)
           full == Len(hist) >= config.requests_per_hour
           wt == IF full THEN HourlyWait(hist, t) ELSE 0
           c0 == [NoCall EXCEPT !.pre = request_history, !.resumed = t]
       IN  /\ last_reset' = IF rolled THEN Date(t) ELSE last_reset
           /\ IF DailyLimitReached(count, config)
                THEN /\ daily_requests' = count
                     /\ request_history' = request_history
                     /\ pc' = pc
                     /\ wake' = wake
                     /\ cur' = cur
                     /\ log' = Append(log, Finished(p, t, "rejected", c0))
                ELSE /\ daily_requests' = count
                     /\ request_history' = hist
                     /\ log' = log
                     /\ IF full /\ wt > 0
                          THEN /\ pc' = [pc EXCEPT ![p] = "hourly_sleep"]
                               /\ wake' = [wake EXCEPT ![p] = t + wt]
                               /\ cur' = [cur EXCEPT ![p] = [c0 EXCEPT !.wait = wt]]
                          ELSE \E d \in config.min_delay..config.max_delay :
                               /\ pc' = [pc EXCEPT ![p] = "jitter_sleep"]
                               /\ wake' = [wake EXCEPT ![p] = t + d]
                               /\ cur' = [cur EXCEPT ![p] = [c0 EXCEPT !.delay = d]]
    /\ UNCHANGED <<config, clock>>

\* an hourly sleep that is followed by no jitter
WakeHourlyNoJitter(p) ==
    /\ pc[p] = "hourly_sleep"
    /\ clock >= wake[p]
    /\ pc' = [pc EXCEPT ![p] = "jitter_sleep"]
    /\ wake' = [wake EXCEPT ![p] = clock]
    /\ cur' = [cur EXCEPT ![p] = [@ EXCEPT !.resumed = clock, !.delay = 0]]
    /\ UNCHANGED <<config, clock, request_history, daily_requests, last_reset,
                   now, log>>

\* lines 102-105: the hourly sleep is over, the jitter is drawn and slept
WakeHourly(p) ==
    /\ pc[p] = "hourly_sleep"
    /\ clock >= wake[p]
    /\ \E d \in config.min_delay..config.max_delay :
        /\ pc' = [pc EXCEPT ![p] = "jitter_sleep"]
        /\ wake' = [wake EXCEPT ![p] = clock + d]
        /\ cur' = [cur EXCEPT ![p] = [@ EXCEPT !.resumed = clock, !.delay = d]]
    /\ UNCHANGED <<config, clock, request_history, daily_requests, last_reset,
                   now, log>>

\* lines 107-108: the jitter is over, the acquisition is recorded
Record(p) ==
    /\ pc[p] = "jitter_sleep"
    /\ clock >= wake[p]
    /\ request_history' = Append(request_history, now[p])
    /\ daily_requests' = daily_requests + 1
    /\ pc' = [pc EXCEPT ![p] = "idle"]
    /\ cur' = [cur EXCEPT ![p] = NoCall]
    /\ log' = Append(log, Finished(p, now[p], "ok", cur[p]))
    /\ UNCHANGED <<config, clock, last_reset, now, wake>>

\* real time passes; a sleeping caller is resumed when its sleep is over
Tick ==
    /\ clock < MaxTime
    /\ \A p \in Callers : pc[p] # "idle" => wake[p] > clock
    /\ clock' = clock + 1
    /\ UNCHANGED <<config, request_history, daily_requests, last_reset,
                   pc, now, wake, cur, log>>

----------------------------------------------------------------------------
(* Strings.  A string is a sequence of tokens, a token standing for a run   *)
(* of characters; the strings the model uses are built from tokens none of *)
(* which lies across the boundary of another, so that Python's substring   *)
(* test a in b is the test that the tokens of a occur in b side by side.   *)

None == [some |-> FALSE, val |-> <<>>]
Some(v) == [some |-> TRUE, val |-> v]

\* nothing extracted yet
NoResult == [text |-> None, trace |-> <<>>, queried |-> <<>>, plain |-> None]

\* close_modals has not been called
NoModalPage == [first_wait |-> "ok", answers |-> <<>>, escape |-> "ok"]
NoClosed ==
    [called |-> FALSE, modal_closed |-> FALSE, clicked |-> <<>>, tried |-> <<>>,
     escape |-> FALSE, raised |-> FALSE]
ModalsIdle == modal_page = NoModalPage /\ closed = NoClosed

\* str.lower(), token by token: the tokens that hold a capital letter, each
\* with its lower-case form; a token without capitals is its own
LowerCased ==
    {
     <<"#jobDescriptionText", "#jobdescriptiontext">>,
     <<".jobsearch-InlineCompanyRating .icl-u-lg-mr--sm", ".jobsearch-inlinecompanyrating .icl-u-lg-mr--sm">>,
     <<".jobsearch-JobInfoHeader-subtitle", ".jobsearch-jobinfoheader-subtitle">>,
     <<".jobsearch-JobInfoHeader-title", ".jobsearch-jobinfoheader-title">>,
     <<".jobsearch-jobDescriptionText", ".jobsearch-jobdescriptiontext">>,
     <<".styles_job-desc-container__txpYf", ".styles_job-desc-container__txpyf">>,
     <<".styles_job-desc-container_txpYf", ".styles_job-desc-container_txpyf">>,
     <<"Access", "access">>,
     <<"Blocked", "blocked">>,
     <<"CAPTCHA", "captcha">>,
     <<"Cloudflare", "cloudflare">>,
     <<"DENIED", "denied">>,
     <<"Daily request limit exceeded", "daily request limit exceeded">>,
     <<"Direct connection", "direct connection">>,
     <<"Engineer", "engineer">>,
     <<"Example.com", "example.com">>,
     <<"Full", "full">>,
     <<"Indeed", "indeed">>,
     <<"Indeed.com", "indeed.com">>,
     <<"Internshala", "internshala">>,
     <<"Internshala.com", "internshala.com">>,
     <<"Just", "just">>,
     <<"LinkedIn", "linkedin">>,
     <<"LinkedIn.COM", "linkedin.com">>,
     <<"Linkedin.com", "linkedin.com">>,
     <<"Naukri", "naukri">>,
     <<"Naukri.com", "naukri.com">>,
     <<"Software", "software">>,
     <<"WWW.", "www.">>,
     <<"Wellfound", "wellfound">>,
     <<"Wellfound.com", "wellfound.com">>,
     <<"h1.jobsearch-JobInfoHeader-title", "h1.jobsearch-jobinfoheader-title">>,
     <<"section.styles_job-desc-container__txpYf", "section.styles_job-desc-container__txpyf">>,
     <<"section.styles_job-desc-container_txpYf", "section.styles_job-desc-container_txpyf">>
    }

LowerToken(t) ==
    IF \E c \in LowerCased : c[1] = t
      THEN (CHOOSE c \in LowerCased : c[1] = t)[2]
      ELSE t

Lower(str) == [i \in DOMAIN str |-> LowerToken(str[i])]

\* a in b
Contains(a, b) ==
    \E i \in 0..(Len(b) - Len(a)) : \A k \in 1..Len(a) : b[i + k] = a[k]

\* str.strip(): the white space at both ends goes
RECURSIVE LStrip(_)
LStrip(t) == IF t # <<>> /\ Head(t) = " " THEN LStrip(Tail(t)) ELSE t

RECURSIVE RStrip(_)
RStrip(t) ==
    IF t # <<>> /\ t[Len(t)] = " " THEN RStrip(SubSeq(t, 1, Len(t) - 1)) ELSE t

Strip(t) == RStrip(LStrip(t))

----------------------------------------------------------------------------
(* Site profile registry and detection *)

\* SITE_CONFIGS.keys(), in the order of the dict literal
SiteKeys ==
    <<"linkedin.com", "naukri.com", "wellfound.com", "indeed.com",
      "internshala.com">>

\* urlparse(url).netloc: after an optional scheme, the text between "//"
\* and the first of "/", "?", "#"; empty when the rest does not start "//"
Schemes == {"https:", "http:"}
Delims == {"/", "?", "#"}

RECURSIVE UpToDelim(_)
UpToDelim(u) ==
    IF u = <<>> \/ Head(u) \in Delims THEN <<>>
    ELSE <<Head(u)>> \o UpToDelim(Tail(u))

Netloc(url) ==
    LET rest == IF url # <<>> /\ Head(url) \in Schemes THEN Tail(url) ELSE url
    IN  IF rest # <<>> /\ Head(rest) = "//" THEN UpToDelim(Tail(rest)) ELSE <<>>

\* the first key of the registry, in registry order, that the domain contains
RECURSIVE FirstKeyIn(_, _)
FirstKeyIn(keys, domain) ==
    IF keys = <<>> THEN "generic"
    ELSE IF Contains(<<Head(keys)>>, domain) THEN Head(keys)
    ELSE FirstKeyIn(Tail(keys), domain)

\* detect_job_site
detect_job_site(url) == FirstKeyIn(SiteKeys, Lower(Netloc(url)))

\* the URLs handed to detect_job_site: an optional scheme, an optional "//",
\* an authority (optional userinfo and "@", a host of up to MaxAuthority
\* tokens, an optional port), then a path or a query
HostTokens ==
    {"in.", "linkedin.com", "LinkedIn.COM", "indeed.com", "example.com"}

RECURSIVE SeqsUpTo(_, _)
SeqsUpTo(S, n) ==
    IF n = 0 THEN {<<>>}
    ELSE LET shorter == SeqsUpTo(S, n - 1)
         IN  shorter \cup {Append(q, x) : q \in shorter, x \in S}

Authorities ==
    {ui \o h \o port :
        ui \in {<<>>} \cup {<<t, "@">> : t \in HostTokens},
        h \in SeqsUpTo(HostTokens, MaxAuthority) \ {<<>>},
        port \in {<<>>, <<":443">>}}

Rests ==
    {<<>>, <<"/", "jobs">>, <<"/", "linkedin.com">>,
     <<"/", "jobs", "?", "indeed.com">>, <<"?", "naukri.com">>}

URLs ==
    {s \o sl \o a \o r :
        s \in {<<>>, <<"https:">>}, sl \in {<<>>, <<"//">>},
        a \in Authorities, r \in Rests}

DetectInit ==
    /\ job_url \in URLs
    /\ site_key = ""

Detect ==
    /\ site_key = ""
    /\ site_key' = detect_job_site(job_url)
    /\ UNCHANGED job_url

----------------------------------------------------------------------------
(* Extraction engine *)

\* what the page answers for one selector: fail names the page operation
\* that raises (if any), count is locator.count(), visible and text are
\* is_visible() and inner_text() of the first match
Texts == {<<>>, <<" ">>, <<"a">>, <<" ", "a", " ">>, <<"a", " ", "b">>}

Answers ==
    {[fail |-> "count", count |-> 0, visible |-> FALSE, text |-> <<>>],
     [fail |-> "none", count |-> 0, visible |-> FALSE, text |-> <<>>]}
    \cup {[fail |-> f, count |-> c, visible |-> FALSE, text |-> <<>>] :
             f \in {"none", "is_visible"}, c \in {1, 2}}
    \cup {[fail |-> "inner_text", count |-> 1, visible |-> TRUE, text |-> <<>>]}
    \cup {[fail |-> "none", count |-> 1, visible |-> TRUE, text |-> t] :
             t \in Texts}

\* line 468: if text and text.strip()
UsableTextNoStrip(text) == text # <<>>
UsableText(text) == text # <<>> /\ Strip(text) # <<>>

Entry(i, kind, info) == [idx |-> i, kind |-> kind, info |-> info]

\* extract_text_by_selectors_with_debug, from selector i on; debug is
\* debug_info so far, queried the selectors the pdom was asked about so far
RECURSIVE DebugFrom(_, _, _, _, _)
DebugFrom(pdom, sels, i, debug, queried) ==
    IF i > Len(sels)
      THEN [text |-> None, trace |-> debug, queried |-> queried]
      ELSE
        LET a == pdom[sels[i]]
            q == Append(queried, sels[i])
            found == Append(debug, Entry(i, "found", a.count))
            error(d) == DebugFrom(pdom, sels, i + 1,
                                  Append(d, Entry(i, "error", 0)), q)
        IN  IF a.fail = "count" THEN error(debug)
            ELSE IF a.count = 0
              THEN DebugFrom(pdom, sels, i + 1,
                             Append(debug, Entry(i, "not_found", 0)), q)
            ELSE IF a.fail = "is_visible" THEN error(found)
            ELSE IF ~a.visible
              THEN DebugFrom(pdom, sels, i + 1,
                             Append(found, Entry(i, "not_visible", 0)), q)
            ELSE IF a.fail = "inner_text" THEN error(found)
            ELSE IF UsableText(a.text)
              THEN [text |-> Some(Strip(a.text)),
                    trace |-> Append(found, Entry(i, "success", Len(a.text))),
                    queried |-> q]
            ELSE DebugFrom(pdom, sels, i + 1,
                           Append(found, Entry(i, "empty", 0)), q)

extract_text_by_selectors_with_debug(pdom, sels) ==
    DebugFrom(pdom, sels, 1, <<>>, <<>>)

\* extract_text_by_selectors: the first visible match ends the search
RECURSIVE PlainFrom(_, _, _)
PlainFrom(pdom, sels, i) ==
    IF i > Len(sels) THEN None
    ELSE LET a == pdom[sels[i]]
         IN  IF a.fail = "count" \/ a.fail = "is_visible"
               THEN PlainFrom(pdom, sels, i + 1)
             ELSE IF a.count > 0 /\ a.visible
               THEN IF a.fail = "inner_text" THEN PlainFrom(pdom, sels, i + 1)
                    ELSE IF a.text # <<>> THEN Some(Strip(a.text)) ELSE None
             ELSE PlainFrom(pdom, sels, i + 1)

extract_text_by_selectors(pdom, sels) == PlainFrom(pdom, sels, 1)

\* the selector lists and pages the extraction is tried on
SelectorPool == <<".a", ".b", ".c", ".d", ".e">>
SelectorLists == {SubSeq(SelectorPool, 1, n) : n \in 0..MaxSelectors}

ExtractInit ==
    /\ selectors \in SelectorLists
    /\ dom \in [{selectors[i] : i \in DOMAIN selectors} -> Answers]
    /\ extracted = NoResult
    /\ ModalsIdle

Extract ==
    /\ extracted = NoResult
    /\ extracted' =
         LET d == extract_text_by_selectors_with_debug(dom, selectors)
         IN  [text |-> d.text, trace |-> d.trace, queried |-> d.queried,
              plain |-> extract_text_by_selectors(dom, selectors)]
    /\ UNCHANGED <<selectors, dom, modal_page, closed>>

----------------------------------------------------------------------------
(* Site profiles *)

\* SITE_CONFIGS
SITE_CONFIGS ==
    [k \in {SiteKeys[i] : i \in DOMAIN SiteKeys} |->
        CASE k = "linkedin.com" ->
               [name |-> "LinkedIn",
                description_selectors |->
                    <<".description__text--rich", ".description__text",
                      ".jobs-description__content",
                      ".show-more-less-html__markup">>,
                title_selectors |->
                    <<"h1.jobs-unified-top-card__job-title", "h1.topcard__title",
                      ".job-details-jobs-unified-top-card__job-title h1">>,
                company_selectors |->
                    <<".jobs-unified-top-card__company-name a",
                      ".topcard__org-name-link",
                      ".job-details-jobs-unified-top-card__company-name a">>,
                location_selectors |->
                    <<".jobs-unified-top-card__bullet",
                      ".topcard__flavor--bullet">>,
                modal_selectors |->
                    <<"[data-test-modal=\"guest-frontend-challenge-modal\"] button[aria-label=\"Dismiss\"]",
                      ".modal__dismiss", ".artdeco-modal__dismiss",
                      "button[aria-label=\"Dismiss\"]">>,
                dynamic_loading |-> FALSE]
          [] k = "naukri.com" ->
               [name |-> "Naukri",
                description_selectors |->
                    <<"section.styles_job-desc-container_txpYf",
                      ".styles_job-desc-container_txpYf",
                      "section.styles_job-desc-container__txpYf",
                      ".styles_job-desc-container__txpYf",
                      ".job-desc-container", ".jd-description",
                      "[class*=\"job-desc\"]", "[class*=\"description\"]">>,
                title_selectors |->
                    <<".jd-header-title", ".job-title", "h1",
                      "[class*=\"title\"]">>,
                company_selectors |->
                    <<".jd-header-company-name", ".company-name", ".comp-name",
                      "[class*=\"company\"]">>,
                location_selectors |->
                    <<".jd-job-loc", ".job-location", ".location",
                      "[class*=\"location\"]">>,
                modal_selectors |->
                    <<".modal-close", ".close-modal",
                      "button[aria-label=\"Close\"]">>,
                dynamic_loading |-> TRUE]
          [] k = "wellfound.com" ->
               [name |-> "Wellfound",
                description_selectors |->
                    <<"#job-description", ".job-description",
                      ".description-content">>,
                title_selectors |-> <<".job-title", "h1.title", "h1">>,
                company_selectors |->
                    <<".company-name", ".startup-name", ".company-link">>,
                location_selectors |->
                    <<".job-location", ".location", ".remote-ok">>,
                modal_selectors |->
                    <<".modal-close", "button[aria-label=\"Close\"]">>,
                dynamic_loading |-> FALSE]
          [] k = "indeed.com" ->
               [name |-> "Indeed",
                description_selectors |->
                    <<"#jobDescriptionText", ".jobsearch-jobDescriptionText",
                      ".job-description">>,
                title_selectors |->
                    <<".jobsearch-JobInfoHeader-title",
                      "h1.jobsearch-JobInfoHeader-title", ".job-title">>,
                company_selectors |->
                    <<".jobsearch-InlineCompanyRating .icl-u-lg-mr--sm",
                      ".company-name",
                      "[data-testid=\"inlineHeader-companyName\"]">>,
                location_selectors |->
                    <<".jobsearch-JobInfoHeader-subtitle", ".job-location",
                      "[data-testid=\"job-location\"]">>,
                modal_selectors |->
                    <<".popover-x-button", "button[aria-label=\"close\"]">>,
                dynamic_loading |-> FALSE]
          [] k = "internshala.com" ->
               [name |-> "Internshala",
                description_selectors |->
                    <<".internship_details", ".internship-details",
                      ".job-description">>,
                title_selectors |-> <<".profile", ".internship-title", "h1">>,
                company_selectors |->
                    <<".company-name", ".company", ".org-name">>,
                location_selectors |->
                    <<".location_link", ".locations", ".location">>,
                modal_selectors |->
                    <<".modal-close", "button[aria-label=\"Close\"]">>,
                dynamic_loading |-> FALSE]]

\* line 497: SITE_CONFIGS.get(site_key, SITE_CONFIGS['linkedin.com'])
ConfigOf(key) ==
    IF key \in DOMAIN SITE_CONFIGS THEN SITE_CONFIGS[key]
    ELSE SITE_CONFIGS["linkedin.com"]

SeqRange(q) == {q[i] : i \in DOMAIN q}

\* every selector a page can be asked about
AllSelectors ==
    UNION {SeqRange(SITE_CONFIGS[k].description_selectors)
             \cup SeqRange(SITE_CONFIGS[k].title_selectors)
             \cup SeqRange(SITE_CONFIGS[k].company_selectors)
             \cup SeqRange(SITE_CONFIGS[k].location_selectors)
             \cup SeqRange(SITE_CONFIGS[k].modal_selectors) :
           k \in DOMAIN SITE_CONFIGS}
    \cup {".description"}

----------------------------------------------------------------------------
(* Pages *)

\* line 363
max_attempts == 6

\* line 387: page.wait_for_timeout(5000)
poll_interval_ms == 5000

\* lines 509-516
access_denied_indicators ==
    <<<<"access", "denied">>, <<"blocked">>, <<"forbidden">>, <<"captcha">>,
      <<"bot", "detection">>, <<"unusual", "traffic">>>>

\* lines 371-378
cloudflare_indicators ==
    <<<<"just", "a", "moment">>, <<"please", "wait">>,
      <<"checking", "your", "browser">>, <<"cloudflare">>, <<"ray", "id">>,
      <<"cf-browser-verification">>>>

\* any(indicator in text.lower() for indicator in indicators)
AnyIn(indicators, text) ==
    \E i \in DOMAIN indicators : Contains(indicators[i], Lower(text))

\* lines 518-519
is_blocked_title_only(title, content) == AnyIn(access_denied_indicators, title)
is_blocked(title, content) ==
    AnyIn(access_denied_indicators, title)
        \/ AnyIn(access_denied_indicators, content)

\* lines 380-381
is_cloudflare_title_only(title, content) ==
    AnyIn(cloudflare_indicators, title)
is_cloudflare(title, content) ==
    AnyIn(cloudflare_indicators, title) \/ AnyIn(cloudflare_indicators, content)

Absent == [fail |-> "none", count |-> 0, visible |-> FALSE, text |-> <<>>]
Shown(t) == [fail |-> "none", count |-> 1, visible |-> TRUE, text |-> t]

JobText == <<" ", "Full", "job", "text", " ">>

\* a DOM in which the selectors of S show JobText and no other selector
\* matches
DomShowing(S) == [s \in AllSelectors |-> IF s \in S THEN Shown(JobText) ELSE Absent]

Doms ==
    {DomShowing({})}
    \cup {DomShowing({s}) :
            s \in {".description", ".description__text", ".jd-description"}}
    \cup {DomShowing({".description", "h1.topcard__title"})}
    \cup {[DomShowing({"h1.topcard__title"})
                EXCEPT ![".description__text"] = Shown(<<" ">>)]}

CleanTitle == <<"Software", "Engineer">>
CleanBody == <<"job", "details">>

\* the interstitial shown while a challenge lasts: its marker is in the
\* title or in the content
ChallengeTitle == <<"Just", "a", "moment">>
ChallengeBody == <<"performance", "by", "Cloudflare">>

\* how many inspections of the page a challenge can last
ChallengeLengths == {2, max_attempts}

\* pages that show no block marker, with and without a challenge, with and
\* without a modal that a click dismisses
CleanPages ==
    {[title |-> CleanTitle, content |-> CleanBody, challenge |-> 0,
      marker |-> "title", modal |-> m, dom |-> d] : d \in Doms, m \in BOOLEAN}
    \cup {[title |-> CleanTitle, content |-> CleanBody, challenge |-> n,
           marker |-> "title", modal |-> FALSE, dom |-> DomShowing(S)] :
            n \in ChallengeLengths, S \in {{}, {".description__text"}}}
    \cup {[title |-> CleanTitle, content |-> CleanBody, challenge |-> 2,
           marker |-> "content", modal |-> FALSE,
           dom |-> DomShowing({".description__text"})]}

\* pages that carry a block marker in the title or in the content
BlockedPages ==
    {[title |-> t, content |-> CleanBody, challenge |-> 0, marker |-> "title",
      modal |-> FALSE, dom |-> DomShowing({".description__text"})] :
        t \in {<<"Access", "DENIED">>}}
    \cup {[title |-> CleanTitle, content |-> b, challenge |-> 0,
           marker |-> "title", modal |-> FALSE,
           dom |-> DomShowing({".description__text"})] :
            b \in {<<"you", "are", "Blocked">>, <<"solve", "the", "CAPTCHA">>}}

Pages == CleanPages \cup BlockedPages

\* the pages met by the URLs of a batch
BatchPages ==
    {pg \in Pages : /\ pg.challenge = 0
                    /\ ~pg.modal
                    /\ pg.title = CleanTitle
                    /\ pg.content \in {CleanBody, <<"you", "are", "Blocked">>}
                    /\ pg.dom \in {DomShowing({}), DomShowing({".description__text"})}}

NoPage ==
    [title |-> <<>>, content |-> <<>>, challenge |-> 0, marker |-> "title",
     modal |-> FALSE,
     dom |-> DomShowing({})]

\* page.title() / page.content() while the challenge lasts and after it
TitleOf(pg) ==
    IF pg.challenge > 0 /\ pg.marker = "title" THEN ChallengeTitle ELSE pg.title
ContentOf(pg) ==
    IF pg.challenge > 0 /\ pg.marker = "content" THEN ChallengeBody
    ELSE pg.content

\* the modal of a page is dismissed by a click on the first element of any
\* modal selector; no page operation raises
ModalPageOf(pg) ==
    [first_wait |-> "ok",
     answers |-> [s \in AllSelectors |-> IF pg.modal THEN "clicked" ELSE "hidden"],
     escape |-> "ok"]

\* the URLs scraped
ScrapeURLs ==
    {<<"https:", "//", "in.", "linkedin.com", "/", "jobs">>,
     <<"https:", "//", "careers.", "example.com", "/", "job">>,
     <<"https:", "//", "www.", "naukri.com", "/", "job">>}

\* the URLs of a batch
BatchURLs ==
    {<<"https:", "//", "in.", "linkedin.com", "/", "jobs">>,
     <<"https:", "//", "careers.", "example.com", "/", "job">>}

----------------------------------------------------------------------------
(* close_modals *)

\* what the page does when close_modals handles the first element of a
\* selector: is_visible() is false, is_visible() raises, click() raises, the
\* click is made and the wait after it raises, the click and the wait are
\* made
ModalAnswers ==
    {"hidden", "is_visible_raises", "click_raises", "wait_raises", "clicked"}

\* lines 416-426: the loop over the modal selectors from selector i on;
\* clicked are the selectors whose click() was made so far, tried the
\* selectors whose is_visible() was called so far
RECURSIVE ModalsFrom(_, _, _, _, _)
ModalsFrom(mp, sels, i, clicked, tried) ==
    IF i > Len(sels)
      THEN [modal_closed |-> FALSE, clicked |-> clicked, tried |-> tried]
      ELSE
        LET a == mp.answers[sels[i]]
            t == Append(tried, i)
        IN  IF a = "clicked"
              THEN [modal_closed |-> TRUE, clicked |-> Append(clicked, i),
                    tried |-> t]
            ELSE IF a = "wait_raises"
              THEN ModalsFrom(mp, sels, i + 1, Append(clicked, i), t)
            ELSE ModalsFrom(mp, sels, i + 1, clicked, t)

\* close_modals, lines 409-435: escape tells whether keyboard.press('Escape')
\* was called
close_modals(mp, sels) ==
    IF mp.first_wait = "raises"
      THEN [called |-> TRUE, modal_closed |-> FALSE, clicked |-> <<>>,
            tried |-> <<>>, escape |-> FALSE, raised |-> FALSE]
      ELSE LET r == ModalsFrom(mp, sels, 1, <<>>, <<>>)
           IN  [called |-> TRUE, modal_closed |-> r.modal_closed,
                clicked |-> r.clicked, tried |-> r.tried,
                escape |-> ~r.modal_closed, raised |-> FALSE]

\* the profiles close_modals is tried with
ModalProfiles == {"linkedin.com", "naukri.com", "indeed.com"}

ModalsInit ==
    /\ site_key \in ModalProfiles
    /\ modal_page \in
         [first_wait : {"ok", "raises"},
          answers : [SeqRange(ConfigOf(site_key).modal_selectors)
                        -> ModalAnswers],
          escape : {"ok", "raises"}]
    /\ closed = NoClosed

Modals ==
    /\ ~closed.called
    /\ closed' = close_modals(modal_page, ConfigOf(site_key).modal_selectors)
    /\ UNCHANGED <<site_key, modal_page>>

----------------------------------------------------------------------------
(* Results *)

NoError == [kind |-> "none", msg |-> "", trace |-> <<>>]
ErrorText(kind, msg) == [kind |-> kind, msg |-> msg, trace |-> <<>>]

BaseKeys ==
    {"url", "site", "title", "company", "location", "description", "success",
     "error", "timestamp"}

\* a result dict; keys are the keys it has, a field it lacks holds a filler
Dict(keys, url, site, fields, modal_closed, success, error) ==
    [raised |-> FALSE, exc |-> "", keys |-> keys, url |-> url, site |-> site,
     title |-> fields.title, company |-> fields.company,
     location |-> fields.location, description |-> fields.description,
     modal_closed |-> modal_closed, success |-> success, error |-> error,
     access_blocked |-> "access_blocked" \in keys,
     proxy_used |-> "Direct connection"]

NoFields ==
    [title |-> None, company |-> None, location |-> None, description |-> None]

\* an exception on its way out of a function
Raised(msg) ==
    [Dict({}, <<>>, "", NoFields, FALSE, FALSE, NoError)
        EXCEPT !.raised = TRUE, !.exc = msg]

NoValue == Dict({}, <<>>, "", NoFields, FALSE, FALSE, NoError)

\* lines 523-534
BlockedDict(url, site_name) ==
    Dict(BaseKeys \cup {"access_blocked"}, url, site_name, NoFields, FALSE,
         FALSE, ErrorText("blocked", site_name))

\* lines 617-629
ExceptDict(url, msg) ==
    Dict(BaseKeys \cup {"modal_closed", "proxy_used"}, url, "unknown", NoFields,
         FALSE, FALSE, ErrorText("exception", msg))

\* lines 41-51
ThreadErrorDict(url, msg) ==
    Dict(BaseKeys, url, "unknown", NoFields, FALSE, FALSE,
         ErrorText("exception", msg))

\* a result for no URL
MinimalDictForNoUrl(url, msg) ==
    Dict({"url", "success", "error", "timestamp"}, <<>>, "", NoFields, FALSE,
         FALSE, ErrorText("exception", msg))

\* lines 717-722
MinimalDict(url, msg) ==
    Dict({"url", "success", "error", "timestamp"}, url, "", NoFields, FALSE,
         FALSE, ErrorText("exception", msg))

\* a failed result that leaves the trace out
ExtractedDictWithoutTrace(url, key, pdom, modal_closed) ==
    LET sc == ConfigOf(key)
        d == extract_text_by_selectors_with_debug(pdom, sc.description_selectors)
        success == d.text # None
    IN  Dict(BaseKeys \cup {"modal_closed", "proxy_used"}, url, sc.name,
             [title |-> extract_text_by_selectors(pdom, sc.title_selectors),
              company |-> extract_text_by_selectors(pdom, sc.company_selectors),
              location |-> extract_text_by_selectors(pdom, sc.location_selectors),
              description |-> d.text],
             modal_closed, success,
             IF success THEN NoError
             ELSE [kind |-> "extraction_failed", msg |-> "", trace |-> <<>>])

\* a result whose success needs the title as well
ExtractedDictNeedingTitle(url, key, pdom, modal_closed) ==
    LET sc == ConfigOf(key)
        d == extract_text_by_selectors_with_debug(pdom, sc.description_selectors)
        t == extract_text_by_selectors(pdom, sc.title_selectors)
        success == d.text # None /\ t # None
    IN  Dict(BaseKeys \cup {"modal_closed", "proxy_used"}, url, sc.name,
             [title |-> t,
              company |-> extract_text_by_selectors(pdom, sc.company_selectors),
              location |-> extract_text_by_selectors(pdom, sc.location_selectors),
              description |-> d.text],
             modal_closed, success,
             IF success THEN NoError
             ELSE [kind |-> "extraction_failed", msg |-> "", trace |-> d.trace])

\* lines 584-606
ExtractedDict(url, key, pdom, modal_closed) ==
    LET sc == ConfigOf(key)
        d == extract_text_by_selectors_with_debug(pdom, sc.description_selectors)
        success == d.text # None
    IN  Dict(BaseKeys \cup {"modal_closed", "proxy_used"}, url, sc.name,
             [title |-> extract_text_by_selectors(pdom, sc.title_selectors),
              company |-> extract_text_by_selectors(pdom, sc.company_selectors),
              location |-> extract_text_by_selectors(pdom, sc.location_selectors),
              description |-> d.text],
             modal_closed, success,
             IF success THEN NoError
             ELSE [kind |-> "extraction_failed", msg |-> "", trace |-> d.trace])

----------------------------------------------------------------------------
(* JobSiteScraper, scrape_job and scrape_multiple_jobs *)

NoSession ==
    [playwright |-> "none", browser |-> "none", context |-> "none",
     current_proxy |-> "unset", page |-> "none", close_calls |-> 0,
     close_raised |-> "none",
     page_closes |-> 0]

NoOps ==
    [limiter |-> 0, goto |-> 0, inspections |-> 0, page_error |-> FALSE, page_title |-> <<>>, page_content |-> <<>>,
     attempt |-> 0, cf_inspections |-> 0, cf_waited_ms |-> 0,
     cf_error |-> FALSE,
     cf_done |-> FALSE, cloudflare_success |-> FALSE, modals |-> 0,
     modal_closed |-> FALSE, extractions |-> 0]

NoApi == [fn |-> "none", urls |-> <<>>, i |-> 0, passes |-> 0, rejections |-> 0,
          day |-> 0]

UrlLists == SeqsUpTo(BatchURLs, MaxUrls)

\* the configurations and the instant the scrapes start with
ProxySettings ==
    {[use_proxy |-> TRUE, proxy_list |-> <<"proxy-a", "proxy-b">>],
     [use_proxy |-> TRUE, proxy_list |-> <<>>],
     [use_proxy |-> FALSE, proxy_list |-> <<"proxy-a", "proxy-b">>]}

ScrapeConfigs ==
    {c \in Configs : /\ c.max_delay = 0
                     /\ c.max_daily_requests < MaxDaily}
    \cup {[c EXCEPT !.use_proxy = ps.use_proxy, !.proxy_list = ps.proxy_list] :
            c \in {d \in Configs : /\ d.max_delay = 0
                                   /\ d.requests_per_hour = 1
                                   /\ d.max_daily_requests = 1},
            ps \in ProxySettings}

\* lines 322-326: the proxies start can choose
ProxyChoices(c) ==
    IF c.use_proxy /\ c.proxy_list # <<>>
      THEN {c.proxy_list[i] : i \in DOMAIN c.proxy_list}
      ELSE {"none"}

\* lines 604 and 627: self.current_proxy or 'Direct connection'
WithProxy(r, s) ==
    [r EXCEPT !.proxy_used = IF s.current_proxy \in {"unset", "none"}
                               THEN "Direct connection"
                               ELSE s.current_proxy]

RECURSIVE UrlsOf(_)
UrlsOf(cs) == IF cs = <<>> THEN 0 ELSE Head(cs).n_urls + UrlsOf(Tail(cs))

NoLast == [fn |-> "none", urls |-> <<>>, outcome |-> "none", value |-> <<>>,
           inner |-> NoValue, session |-> NoSession]

ScrapeIdle ==
    /\ platform \in {"win32", "linux"}
    /\ api = NoApi
    /\ spc = "idle"
    /\ session = NoSession
    /\ page = NoPage
    /\ ops = NoOps
    /\ result = NoValue
    /\ results = <<>>
    /\ calls = <<>>
    /\ last = NoLast

\* JobSiteScraper.__init__: a scraper with a RateLimiter of its own
NewScraper ==
    /\ request_history' = <<>>
    /\ daily_requests' = 0
    /\ last_reset' = Date(clock)
    /\ session' = NoSession
    /\ page' = NoPage
    /\ ops' = NoOps
    /\ result' = NoValue
    /\ results' = <<>>
    /\ site_key' = ""
    /\ last' = NoLast
    /\ UNCHANGED <<config, clock, pc, now, wake, cur, log, xvars, platform, calls>>

\* scrape_job(job_url, config), lines 669-702
CallScrapeJob ==
    /\ spc = "idle"
    /\ Len(calls) < MaxScrapes
    /\ \E url \in ScrapeURLs :
        /\ job_url' = url
        /\ api' = [NoApi EXCEPT !.fn = "scrape_job", !.urls = <<url>>, !.i = 1,
                                !.day = Date(clock)]
    /\ spc' = "start"
    /\ NewScraper

\* scrape_multiple_jobs(job_urls, config), lines 704-709
CallScrapeMultiple ==
    /\ spc = "idle"
    /\ Len(calls) < MaxScrapes
    /\ \E urls \in {u \in UrlLists : UrlsOf(calls) + Len(u) <= MaxVisits} :
        api' = [NoApi EXCEPT !.fn = "scrape_multiple_jobs", !.urls = urls,
                             !.i = 1, !.day = Date(clock)]
    /\ job_url' = <<>>
    /\ spc' = "start"
    /\ NewScraper

\* the entry point in progress ends: it returns value or raises; inner is
\* what left the async with block of scrape_job
Finish(outcome, value, inner) ==
    /\ calls' = Append(calls, [fn |-> api.fn, n_urls |-> Len(api.urls),
                               outcome |-> outcome, passes |-> api.passes,
                               rejections |-> api.rejections, day |-> api.day])
    /\ last' = [fn |-> api.fn, urls |-> api.urls, outcome |-> outcome,
                value |-> value, inner |-> inner, session |-> session']
    /\ api' = NoApi
    /\ spc' = "idle"

\* what scrape_job on the platform pf gives its caller when inner leaves the
\* async with block: a result goes through unchanged; an exception goes
\* through on the direct path (lines 699-702), and on win32 the thread's
\* except clause (lines 39-51) turns it into a dict
ScrapeJobOutcome(pf, url, inner) ==
    IF ~inner.raised THEN [outcome |-> "returned", value |-> <<inner>>]
    ELSE IF pf = "win32"
      THEN [outcome |-> "returned",
            value |-> <<ThreadErrorDict(url, inner.exc)>>]
    ELSE [outcome |-> "raised", value |-> <<>>]

\* scrape_job ends after inner has left its async with block
FinishScrapeJob(inner) ==
    LET o == ScrapeJobOutcome(platform, job_url, inner)
    IN  Finish(o.outcome, o.value, inner)

\* what scrape_job does with an exception that leaves the async with block
ScrapeJobFails(msg) == FinishScrapeJob(Raised(msg))

\* JobSiteScraper.start, lines 289-346, entered through __aenter__
Start ==
    /\ spc = "start"
    /\ \E how \in {"ok", "playwright", "launch", "context", "init_script"},
          px \in ProxyChoices(config) :
        /\ session' =
             [session EXCEPT
                !.playwright = IF how = "playwright" THEN "none" ELSE "started",
                !.browser = IF how \in {"ok", "context", "init_script"}
                              THEN "open" ELSE "none",
                !.current_proxy = IF how \in {"ok", "context", "init_script"}
                                    THEN px ELSE "unset",
                !.context = IF how \in {"ok", "init_script"} THEN "open"
                            ELSE "none"]
        /\ IF how = "ok"
             THEN /\ spc' = IF api.fn = "scrape_job" THEN "new_page" ELSE "loop"
                  /\ UNCHANGED <<api, calls, last>>
             ELSE IF api.fn = "scrape_job"
               THEN ScrapeJobFails("start failed")
               ELSE Finish("raised", <<>>, Raised("start failed"))
    /\ UNCHANGED <<lvars, dvars, xvars, platform, page, ops, result, results>>

\* the operation of close that raises, if any
CloseFailures == {"none", "context", "browser", "playwright"}

\* a close that closes nothing
NeverClosed(s, f) == s

\* JobSiteScraper.close, lines 348-358: context.close(), browser.close() and
\* playwright.stop() in one try; the one named by f raises, those after it
\* are skipped and the exception is swallowed
Closed(s, f) ==
    LET ctx_raises == f = "context" /\ s.context = "open"
        brw_raises == f = "browser" /\ s.browser = "open"
        pw_raises == f = "playwright" /\ s.playwright = "started"
    IN  [s EXCEPT
           !.context = IF @ = "open" /\ ~ctx_raises THEN "closed" ELSE @,
           !.browser = IF @ = "open" /\ ~ctx_raises /\ ~brw_raises
                         THEN "closed" ELSE @,
           !.playwright = IF @ = "started" /\ ~ctx_raises /\ ~brw_raises
                               /\ ~pw_raises
                            THEN "stopped" ELSE @,
           !.close_raised = IF ctx_raises THEN "context"
                            ELSE IF brw_raises THEN "browser"
                            ELSE IF pw_raises THEN "playwright"
                            ELSE "none",
           !.close_calls = @ + 1]

\* scrape_multiple_jobs, lines 710-724: the head of the loop over job_urls
Loop ==
    /\ spc = "loop"
    /\ IF api.i > Len(api.urls)
         THEN /\ \E f \in CloseFailures : session' = Closed(session, f)
              /\ Finish("returned", results, NoValue)
              /\ UNCHANGED job_url
         ELSE /\ job_url' = api.urls[api.i]
              /\ spc' = "new_page"
              /\ UNCHANGED <<api, calls, last, session>>
    /\ UNCHANGED <<lvars, site_key, xvars, platform, page, ops, result, results>>

\* scrape_job_description, lines 484-487
NewPage ==
    /\ spc = "new_page"
    /\ \E ok \in BOOLEAN :
        IF ok
          THEN /\ session' = [session EXCEPT !.page = "open"]
               /\ result' = NoValue
               /\ spc' = "limiter"
          ELSE /\ session' = session
               /\ result' = Raised("new_page failed")
               /\ spc' = "return"
    /\ ops' = NoOps
    /\ page' = NoPage
    /\ site_key' = ""
    /\ UNCHANGED <<lvars, job_url, xvars, platform, api, results, calls, last>>

\* line 493: the call of wait_if_needed; a raise goes to the except clause
LimiterEnter ==
    /\ spc = "limiter"
    /\ Enter(1)
    /\ IF Len(log') > Len(log)
         THEN /\ result' = WithProxy(ExceptDict(job_url,
                                                 "Daily request limit exceeded"),
                                      session)
              /\ api' = [api EXCEPT !.rejections = @ + 1]
              /\ spc' = "page_close"
         ELSE /\ spc' = "limiter_wait"
              /\ UNCHANGED <<result, api>>
    /\ ops' = [ops EXCEPT !.limiter = @ + 1]
    /\ UNCHANGED <<dvars, xvars, platform, session, page, results, calls,
                   last>>

LimiterWake ==
    /\ spc = "limiter_wait"
    /\ WakeHourly(1)
    /\ UNCHANGED <<dvars, xvars, svars>>

LimiterTick ==
    /\ spc = "limiter_wait"
    /\ Tick
    /\ UNCHANGED <<dvars, xvars, svars>>

LimiterRecord ==
    /\ spc = "limiter_wait"
    /\ Record(1)
    /\ api' = [api EXCEPT !.passes = @ + 1]
    /\ spc' = "goto"
    /\ UNCHANGED <<dvars, xvars, platform, session, page, ops, result, results,
                   calls, last>>

\* lines 495-503: detect the site, then page.goto
Goto(P) ==
    /\ spc = "goto"
    /\ site_key' = detect_job_site(job_url)
    /\ \/ /\ page' \in P
          /\ ops' = [ops EXCEPT !.goto = @ + 1]
          /\ spc' = "inspect"
          /\ UNCHANGED result
       \/ /\ result' = WithProxy(ExceptDict(job_url, "goto failed"), session)
          /\ ops' = [ops EXCEPT !.goto = @ + 1]
          /\ spc' = "page_close"
          /\ UNCHANGED page
    /\ UNCHANGED <<lvars, job_url, xvars, platform, api, session, results, calls,
                   last>>

\* the page operations of a scrape that can raise: page.title() (line 506),
\* page.content() (line 507), page.wait_for_timeout (line 537), page.evaluate
\* and the waits of lines 548-575, page.close() (line 631)
PageFailures == {"title", "content", "wait", "evaluate", "page_close"}

\* those that raise in the scrapes of a batch
BatchPageFailures == {"title", "page_close"}

\* lines 505-537: page.title(), page.content(), the block check on both and
\* the wait that follows it; an operation of F may raise, which leads to
\* the except clause of lines 615-629
Inspect(F) ==
    /\ spc = "inspect"
    /\ \E f \in {"none"} \cup (F \cap {"title", "content", "wait"}) :
        IF f = "title"
          THEN /\ ops' = [ops EXCEPT !.inspections = @ + 1,
                                      !.page_error = TRUE]
               /\ result' = WithProxy(ExceptDict(job_url, "title failed"),
                                      session)
               /\ spc' = "page_close"
        ELSE IF f = "content"
          THEN /\ ops' = [ops EXCEPT !.inspections = @ + 1,
                                      !.page_title = TitleOf(page),
                                      !.page_error = TRUE]
               /\ result' = WithProxy(ExceptDict(job_url, "content failed"),
                                      session)
               /\ spc' = "page_close"
        ELSE IF is_blocked(TitleOf(page), ContentOf(page))
          THEN /\ ops' = [ops EXCEPT !.inspections = @ + 1,
                                      !.page_title = TitleOf(page),
                                      !.page_content = ContentOf(page)]
               /\ result' = BlockedDict(job_url, ConfigOf(site_key).name)
               /\ spc' = "page_close"
        ELSE IF f = "wait"
          THEN /\ ops' = [ops EXCEPT !.inspections = @ + 1,
                                      !.page_title = TitleOf(page),
                                      !.page_content = ContentOf(page),
                                      !.page_error = TRUE]
               /\ result' = WithProxy(ExceptDict(job_url,
                                                 "wait_for_timeout failed"),
                                      session)
               /\ spc' = "page_close"
        ELSE /\ ops' = [ops EXCEPT !.inspections = @ + 1,
                                    !.page_title = TitleOf(page),
                                    !.page_content = ContentOf(page)]
             /\ spc' = "cloudflare"
             /\ UNCHANGED result
    /\ UNCHANGED <<lvars, dvars, xvars, platform, api, session, page, results,
                   calls, last>>

\* a challenge handler whose failure ends the scrape
CloudflareAborting ==
    /\ spc = "cloudflare"
    /\ IF ops.attempt < max_attempts
         THEN IF ~is_cloudflare(TitleOf(page), ContentOf(page))
                THEN /\ ops' = [ops EXCEPT !.cf_inspections = @ + 1,
                                           !.cf_done = TRUE,
                                           !.cloudflare_success = TRUE]
                     /\ spc' = "modals"
                     /\ UNCHANGED <<page, result>>
                ELSE /\ ops' = [ops EXCEPT !.cf_inspections = @ + 1,
                                           !.attempt = @ + 1]
                     /\ page' = [page EXCEPT !.challenge =
                                                 IF @ > 0 THEN @ - 1 ELSE 0]
                     /\ UNCHANGED <<spc, result>>
         ELSE /\ ops' = [ops EXCEPT !.cf_done = TRUE,
                                    !.cloudflare_success = FALSE]
              /\ result' = WithProxy(ExceptDict(job_url, "challenge"), session)
              /\ spc' = "page_close"
              /\ UNCHANGED page
    /\ UNCHANGED <<lvars, dvars, xvars, platform, api, session, results,
                   calls, last>>

\* handle_cloudflare_verification, lines 360-396: one turn of the loop, or
\* its end after max_attempts turns
Cloudflare ==
    /\ spc = "cloudflare"
    /\ IF ops.attempt < max_attempts
         THEN \/ IF ~is_cloudflare(TitleOf(page), ContentOf(page))
                   THEN /\ ops' = [ops EXCEPT !.cf_inspections = @ + 1,
                                              !.cf_done = TRUE,
                                              !.cloudflare_success = TRUE]
                        /\ spc' = "modals"
                        /\ UNCHANGED page
                   ELSE /\ ops' = [ops EXCEPT !.cf_inspections = @ + 1,
                                              !.cf_waited_ms =
                                                    @ + poll_interval_ms,
                                              !.attempt = @ + 1]
                        /\ page' = [page EXCEPT !.challenge =
                                                    IF @ > 0 THEN @ - 1 ELSE 0]
                        /\ UNCHANGED spc
              \* lines 394-396: page.title() or page.content() raises
              \/ /\ ops' = [ops EXCEPT !.cf_inspections = @ + 1,
                                       !.cf_done = TRUE,
                                       !.cf_error = TRUE,
                                       !.cloudflare_success = FALSE]
                 /\ spc' = "modals"
                 /\ UNCHANGED page
         ELSE /\ ops' = [ops EXCEPT !.cf_done = TRUE,
                                    !.cloudflare_success = FALSE]
              /\ spc' = "modals"
              /\ UNCHANGED page
    /\ UNCHANGED <<lvars, dvars, xvars, platform, api, session, result, results,
                   calls, last>>

\* close_modals, lines 409-435, on the page of the scrape
CloseModals ==
    /\ spc = "modals"
    /\ ops' = [ops EXCEPT
                 !.modals = @ + 1,
                 !.modal_closed =
                     close_modals(ModalPageOf(page),
                                  ConfigOf(site_key).modal_selectors).modal_closed]
    /\ spc' = "extract"
    /\ UNCHANGED <<lvars, dvars, xvars, platform, api, session, page, result,
                   results, calls, last>>

\* lines 547-613: scrolling and waiting, then the extraction of the fields
ExtractFields(F) ==
    /\ spc = "extract"
    /\ \E f \in {"none"} \cup (F \cap {"evaluate"}) :
        IF f = "none"
          THEN /\ ops' = [ops EXCEPT !.extractions = @ + 1]
               /\ result' = WithProxy(ExtractedDict(job_url, site_key, page.dom,
                                                    ops.modal_closed), session)
          \* lines 548-575: page.evaluate or page.wait_for_timeout raises
          ELSE /\ ops' = [ops EXCEPT !.page_error = TRUE]
               /\ result' = WithProxy(ExceptDict(job_url, "evaluate failed"),
                                      session)
    /\ spc' = "page_close"
    /\ UNCHANGED <<lvars, dvars, xvars, platform, api, session, page, results,
                   calls, last>>

\* lines 630-631: finally: await page.close()
PageClose(F) ==
    /\ spc = "page_close"
    /\ \E f \in {"none"} \cup (F \cap {"page_close"}) :
        IF f = "none"
          THEN /\ session' = [session EXCEPT !.page = "closed",
                                              !.page_closes = @ + 1]
               /\ UNCHANGED result
          \* page.close() raises: the exception replaces what the call was
          \* about to return
          ELSE /\ session' = [session EXCEPT !.page_closes = @ + 1]
               /\ result' = Raised("page close failed")
    /\ spc' = "return"
    /\ UNCHANGED <<lvars, dvars, xvars, platform, api, page, ops, results,
                   calls, last>>

\* scrape_job_description has returned or raised: scrape_job leaves its
\* async with block (__aexit__ closes the session) and ends; the loop of
\* scrape_multiple_jobs appends a result and goes on
Return ==
    /\ spc = "return"
    /\ IF api.fn = "scrape_job"
         THEN /\ \E f \in CloseFailures : session' = Closed(session, f)
              /\ FinishScrapeJob(result)
              /\ UNCHANGED results
         ELSE /\ results' = Append(results,
                                   IF result.raised
                                     THEN MinimalDict(job_url, result.exc)
                                     ELSE result)
              /\ api' = [api EXCEPT !.i = @ + 1]
              /\ spc' = "loop"
              /\ UNCHANGED <<session, calls, last>>
    /\ result' = NoValue
    /\ ops' = NoOps
    /\ page' = NoPage
    /\ site_key' = ""
    /\ UNCHANGED <<lvars, job_url, xvars, platform>>

\* time passes between two calls, up to the midnight after the first
Pass ==
    /\ spc = "idle"
    /\ clock < DAY
    /\ clock' = clock + 1
    /\ UNCHANGED <<config, request_history, daily_requests, last_reset, pc, now,
                   wake, cur, log, dvars, xvars, svars>>

ScrapeInit ==
    /\ config \in ScrapeConfigs
    /\ clock = DAY - 1
    /\ request_history = <<>>
    /\ daily_requests = 0
    /\ last_reset = Date(clock)
    /\ pc = [p \in Callers |-> "idle"]
    /\ now = [p \in Callers |-> 0]
    /\ wake = [p \in Callers |-> 0]
    /\ cur = [p \in Callers |-> NoCall]
    /\ log = <<>>
    /\ job_url = <<>> /\ site_key = ""
    /\ selectors = <<>> /\ dom = <<>> /\ extracted = NoResult
    /\ ModalsIdle
    /\ ScrapeIdle

\* scrape_job called time after time; the RateLimiter of each call is new,
\* its window is empty and it never sleeps for the hourly cap
ScrapeNext ==
    \/ CallScrapeJob
    \/ Pass
    \/ Start
    \/ NewPage
    \/ LimiterEnter
    \/ LimiterRecord
    \/ Goto(Pages)
    \/ Inspect(PageFailures)
    \/ Cloudflare
    \/ CloseModals
    \/ ExtractFields(PageFailures)
    \/ PageClose(PageFailures)
    \/ Return

\* scrape_multiple_jobs called time after time
BatchNext ==
    \/ CallScrapeMultiple
    \/ Start
    \/ Loop
    \/ NewPage
    \/ LimiterEnter
    \/ LimiterWake
    \/ LimiterTick
    \/ LimiterRecord
    \/ Goto(BatchPages)
    \/ Inspect(BatchPageFailures)
    \/ Cloudflare
    \/ CloseModals
    \/ ExtractFields(BatchPageFailures)
    \/ PageClose(BatchPageFailures)
    \/ Return

\* scrape_multiple_jobs has no branch on sys.platform
BatchInit == ScrapeInit /\ platform = "linux"

SpecBatch == BatchInit /\ [][BatchNext]_vars

Spec == ScrapeInit /\ [][ScrapeNext]_vars

\* the variables the rate limiter does not touch
nonlimiter == <<dvars, xvars, svars>>

OthersIdle ==
    /\ job_url = <<>>
    /\ site_key = ""
    /\ selectors = <<>>
    /\ dom = <<>>
    /\ extracted = NoResult
    /\ ModalsIdle
    /\ ScrapeIdle

\* a fresh RateLimiter, nothing else going on
SeqInit == LimiterInit /\ OthersIdle

\* one caller, each call made after the previous one has returned
SeqNext ==
    \/ Enter(1) /\ UNCHANGED nonlimiter
    \/ WakeHourly(1) /\ UNCHANGED nonlimiter
    \/ Record(1) /\ UNCHANGED nonlimiter
    \/ Tick /\ UNCHANGED nonlimiter

SpecLimiter == SeqInit /\ [][SeqNext]_vars

\* two coroutines sharing the limiter; a coroutine runs until its next await
ConcNext ==
    \/ \E p \in Callers : Enter(p) /\ UNCHANGED nonlimiter
    \/ \E p \in Callers : WakeHourly(p) /\ UNCHANGED nonlimiter
    \/ \E p \in Callers : Record(p) /\ UNCHANGED nonlimiter
    \/ Tick /\ UNCHANGED nonlimiter

SpecConc == SeqInit /\ [][ConcNext]_vars

LimiterIdle ==
    /\ config \in {c \in Configs : c.min_delay = 0 /\ c.max_delay = 0
                                   /\ c.requests_per_hour = 1
                                   /\ c.max_daily_requests = 1}
    /\ clock = DAY
    /\ request_history = <<>>
    /\ daily_requests = 0
    /\ last_reset = Date(clock)
    /\ pc = [p \in Callers |-> "idle"]
    /\ now = [p \in Callers |-> 0]
    /\ wake = [p \in Callers |-> 0]
    /\ cur = [p \in Callers |-> NoCall]
    /\ log = <<>>

\* detect_job_site applied to a URL
DetectSpecInit ==
    /\ LimiterIdle
    /\ DetectInit
    /\ selectors = <<>> /\ dom = <<>> /\ extracted = NoResult
    /\ ModalsIdle
    /\ ScrapeIdle

DetectNext == Detect /\ UNCHANGED <<lvars, xvars, svars>>

SpecDetect == DetectSpecInit /\ [][DetectNext]_vars

\* extract_text_by_selectors_with_debug applied to a page
ExtractSpecInit ==
    /\ LimiterIdle
    /\ job_url = <<>> /\ site_key = ""
    /\ ExtractInit
    /\ ScrapeIdle

ExtractNext == Extract /\ UNCHANGED <<lvars, dvars, svars>>

SpecExtract == ExtractSpecInit /\ [][ExtractNext]_vars

\* close_modals applied to a page
ModalsSpecInit ==
    /\ LimiterIdle
    /\ job_url = <<>>
    /\ selectors = <<>> /\ dom = <<>> /\ extracted = NoResult
    /\ ModalsInit
    /\ ScrapeIdle

ModalsNext ==
    Modals /\ UNCHANGED <<lvars, job_url, selectors, dom, extracted, svars>>

SpecModals == ModalsSpecInit /\ [][ModalsNext]_vars

----------------------------------------------------------------------------
(* Properties of the rate limiter *)

OkCalls == {i \in DOMAIN log : log[i].outcome = "ok"}

\* the calls that returned normally before call i was made, and were made /
\* returned on the calendar day on which call i is made
OkMadeSameDayBefore(i) ==
    {j \in OkCalls : j < i /\ Date(log[j].start) = Date(log[i].start)}
OkReturnedSameDayBefore(i) ==
    {j \in OkCalls : j < i /\ Date(log[j].ret) = Date(log[i].start)}

RejectedWithoutSleep(i) ==
    /\ log[i].outcome = "rejected"
    /\ log[i].wait = 0
    /\ log[i].delay = 0
    /\ log[i].ret = log[i].start

\* C1 as stated: on every calendar day at most max_daily_requests calls
\* return normally (counted by the instant of their return), and every call
\* made on a day on which max_daily_requests calls have already returned
\* normally raises the daily-limit error without sleeping.
C1_DailyCapByReturn ==
    /\ \A i \in OkCalls :
         Cardinality({j \in OkCalls : Date(log[j].ret) = Date(log[i].ret)})
             <= config.max_daily_requests
    /\ \A i \in DOMAIN log :
         Cardinality(OkReturnedSameDayBefore(i)) >= config.max_daily_requests
             => RejectedWithoutSleep(i)

\* C1 amended: of the calls made on one calendar day (the day of the instant
\* at which the call reads the clock) at most max_daily_requests return
\* normally, and every further call made on that day raises the daily-limit
\* error without sleeping: no hourly wait, no jitter, and it ends at the
\* instant it was made.
C1_DailyCapByEntry ==
    /\ \A i \in OkCalls :
         Cardinality({j \in OkCalls : Date(log[j].start) = Date(log[i].start)})
             <= config.max_daily_requests
    /\ \A i \in DOMAIN log :
         Cardinality(OkMadeSameDayBefore(i)) >= config.max_daily_requests
             => RejectedWithoutSleep(i)

\* a call is rejected on a day on which max_daily_requests >= 1 earlier calls
\* were admitted
C1_Witness ==
    \E i \in DOMAIN log :
        /\ config.max_daily_requests >= 1
        /\ log[i].outcome = "rejected"
        /\ Cardinality(OkMadeSameDayBefore(i)) = config.max_daily_requests

\* the n most recent recorded acquisitions before call i, oldest first
MostRecent(i) ==
    LET pre == log[i].pre
        n == config.requests_per_hour
    IN  SubSeq(pre, Len(pre) - n + 1, Len(pre))

WindowFull(i) ==
    /\ Len(log[i].pre) >= config.requests_per_hour
    /\ \A k \in DOMAIN MostRecent(i) : MostRecent(i)[k] > log[i].start - HOUR

AllStale(i) ==
    \A k \in DOMAIN log[i].pre : log[i].pre[k] < log[i].start - HOUR

\* C3: a call made when the requests_per_hour most recent acquisitions all
\* lie within the last hour is suspended until one hour after the oldest of
\* them and only then goes on; a call made when every earlier acquisition is
\* more than one hour old takes no hourly wait.
C3_HourlyWait ==
    \A i \in OkCalls :
        /\ WindowFull(i) =>
             /\ log[i].wait > 0
             /\ log[i].resumed = MinOf(MostRecent(i)) + HOUR
        /\ AllStale(i) =>
             /\ log[i].wait = 0
             /\ log[i].resumed = log[i].start

\* both cases have happened: a call that found the window full, with two
\* different timestamps in it, and a later call that found only stale ones
C3_Witness ==
    /\ \E i \in OkCalls :
         /\ WindowFull(i)
         /\ MinOf(MostRecent(i)) # MaxOf(MostRecent(i))
    /\ \E i \in OkCalls : AllStale(i) /\ Len(log[i].pre) > 0

\* C4: no interval of one hour of real time holds more than
\* requests_per_hour instants at which a call returned normally.
C4_HourlyCapRealTime ==
    \A i \in OkCalls :
        Cardinality({j \in OkCalls :
                        /\ log[j].ret > log[i].ret - HOUR
                        /\ log[j].ret <= log[i].ret})
            <= config.requests_per_hour

\* C5: with several callers on one limiter the caps still hold for all of
\* them together: daily_requests never passes max_daily_requests, at most
\* max_daily_requests of the calls made on one day return normally, and the
\* window never holds more than requests_per_hour acquisitions of the last
\* hour.
C5_CapsAcrossCallers ==
    /\ daily_requests <= config.max_daily_requests
    /\ \A i \in OkCalls :
         Cardinality({j \in OkCalls : Date(log[j].start) = Date(log[i].start)})
             <= config.max_daily_requests
    /\ Len(InWindow(request_history, clock)) <= config.requests_per_hour

----------------------------------------------------------------------------
(* Properties of site detection *)

\* the host of a URL: its authority without the userinfo (up to the last
\* "@") and without the port
RECURSIVE AfterLastAt(_)
AfterLastAt(a) ==
    IF \E i \in DOMAIN a : a[i] = "@" THEN AfterLastAt(Tail(a)) ELSE a

RECURSIVE BeforePort(_)
BeforePort(a) ==
    IF a = <<>> \/ Head(a) = ":443" THEN <<>>
    ELSE <<Head(a)>> \o BeforePort(Tail(a))

HostOf(url) == BeforePort(AfterLastAt(Netloc(url)))

KeysIn(host) == {i \in DOMAIN SiteKeys : Contains(<<SiteKeys[i]>>, Lower(host))}

FirstKeyOfHost(host) ==
    IF KeysIn(host) = {} THEN "generic"
    ELSE SiteKeys[CHOOSE i \in KeysIn(host) : \A j \in KeysIn(host) : i <= j]

\* C6: detect_job_site is a function of the URL's host: it returns the first
\* site key, in registry order, that the lower-cased host contains, and
\* generic when the host contains none; a key that stands only in the path or
\* the query does not count.
C6_DetectByHost ==
    site_key # "" => site_key = FirstKeyOfHost(HostOf(job_url))

----------------------------------------------------------------------------
(* Properties of the extraction engine *)

\* the text without the white space at its ends
Trimmed(t) ==
    LET solid == {i \in DOMAIN t : t[i] # " "}
    IN  IF solid = {} THEN <<>>
        ELSE SubSeq(t, CHOOSE i \in solid : \A j \in solid : i <= j,
                       CHOOSE i \in solid : \A j \in solid : i >= j)

\* selector number i matches, its first match is visible and has text
Usable(i) ==
    LET a == dom[selectors[i]]
    IN  a.fail = "none" /\ a.count > 0 /\ a.visible /\ Trimmed(a.text) # <<>>

UsableSelectors == {i \in DOMAIN selectors : Usable(i)}
FirstUsable == CHOOSE i \in UsableSelectors : \A j \in UsableSelectors : i <= j

SkipKinds == {"not_found", "not_visible", "empty", "error"}

TraceEntries == {extracted.trace[k] : k \in DOMAIN extracted.trace}

\* C8: the extraction returns the trimmed text of the lowest-numbered selector
\* whose first match is visible with non-empty trimmed text; its trace has an
\* entry for every selector before that one (not found, not visible, empty
\* or error), the success entry for that one and nothing for a later one,
\* and no later selector is queried.
C8_FallbackOrder ==
    (extracted # NoResult /\ UsableSelectors # {}) =>
        /\ extracted.text = Some(Trimmed(dom[selectors[FirstUsable]].text))
        /\ \A j \in 1..(FirstUsable - 1) :
             \E e \in TraceEntries : e.idx = j /\ e.kind \in SkipKinds
        /\ \E e \in TraceEntries : e.idx = FirstUsable /\ e.kind = "success"
        /\ \A e \in TraceEntries :
             /\ e.idx <= FirstUsable
             /\ e.kind = "success" => e.idx = FirstUsable
        /\ extracted.queried = SubSeq(selectors, 1, FirstUsable)

\* of three selectors only the second is usable and its text needs trimming:
\* the extraction has skipped the first and returned the second's text
C8_Witness ==
    /\ extracted # NoResult
    /\ Len(selectors) >= 3
    /\ UsableSelectors = {2}
    /\ dom[selectors[2]].text # Trimmed(dom[selectors[2]].text)
    /\ extracted.text.some

----------------------------------------------------------------------------
(* Properties of the scrapes *)

ScrapeJobCalls == {i \in DOMAIN calls : calls[i].fn = "scrape_job"}

\* the scrape_job calls before call i, made on the day of call i, that passed
\* the rate limiter
PassedSameDayBefore(i) ==
    {j \in ScrapeJobCalls : j < i /\ calls[j].day = calls[i].day
                                  /\ calls[j].passes > 0}

\* C2: the rate-limiter state is shared by the scrape_job calls of a process:
\* of the calls made with one config on one calendar day at most
\* max_daily_requests pass the rate limiter, and a call made after that many
\* have passed is rejected with the daily-limit error.
C2_SharedDailyCap ==
    \A i \in ScrapeJobCalls :
        /\ Cardinality(PassedSameDayBefore(i)) <= config.max_daily_requests
        /\ (/\ Cardinality(PassedSameDayBefore(i)) >= config.max_daily_requests
            /\ calls[i].passes + calls[i].rejections >= 1)
             => calls[i].passes = 0 /\ calls[i].rejections = 1

\* the extraction of the scrape in progress has been done on a page that
\* showed neither a block marker nor a challenge
ExtractedFromCleanPage ==
    /\ spc \in {"page_close", "return"}
    /\ ops.extractions = 1
    /\ ops.attempt = 0
    /\ ops.cloudflare_success

\* the page shows a visible element for the selector with text in it
ShowsText(pg, sel) ==
    LET a == pg.dom[sel]
    IN  a.fail = "none" /\ a.count > 0 /\ a.visible /\ Trimmed(a.text) # <<>>

\* C7: a URL whose host contains no site key is scraped with the generic
\* profile: when the page shows no block or challenge marker and a visible
\* .description element with text, the result has success = true, names the
\* site generic and carries the text of that element as the description.
C7_GenericProfile ==
    (/\ ExtractedFromCleanPage
     /\ KeysIn(HostOf(job_url)) = {}
     /\ ShowsText(page, ".description"))
        => /\ result.success
           /\ Lower(<<result.site>>) = <<"generic">>
           /\ result.description = Some(Trimmed(page.dom[".description"].text))
           /\ result.error.kind = "none"

\* the hard-block indicators
HardBlockIndicators ==
    <<<<"access", "denied">>, <<"forbidden">>, <<"captcha">>,
      <<"bot", "detection">>, <<"unusual", "traffic">>>>

\* the title or the content read right after the navigation holds a
\* hard-block indicator, in any case of the letters
SawHardBlock ==
    /\ ops.inspections = 1
    /\ ~ops.page_error
    /\ \/ AnyIn(HardBlockIndicators, ops.page_title)
       \/ AnyIn(HardBlockIndicators, ops.page_content)

\* C9: when the title or the content of the page, both read right after the
\* navigation, holds a hard-block indicator, the scrape ends with success =
\* false, the access-blocked error and no description (which it returns
\* unless the page.close() of the finally clause raises), and it has polled
\* no challenge, dismissed no modal and extracted nothing.
C9_HardBlockShortCircuit ==
    SawHardBlock =>
        /\ spc \in {"page_close", "return"}
        /\ spc = "page_close" => ~result.raised
        /\ ~result.raised =>
              /\ ~result.success
              /\ result.error.kind = "blocked"
              /\ result.access_blocked
              /\ result.description = None
        /\ ops.attempt = 0 /\ ops.cf_inspections = 0 /\ ~ops.cf_done
        /\ ops.modals = 0
        /\ ops.extractions = 0

\* a page with a clean title and CAPTCHA in its content has been answered
\* with the blocked result, and the page is closed
C9_Witness ==
    /\ spc = "return"
    /\ ~AnyIn(HardBlockIndicators, ops.page_title)
    /\ AnyIn(HardBlockIndicators, ops.page_content)
    /\ result.error.kind = "blocked"
    /\ page.dom[".description__text"].visible

\* C10: scrape_job and scrape_multiple_jobs never raise to their caller:
\* every call returns, and a result that is not a success has success = false
\* and an error.
C10_NeverRaises ==
    /\ \A i \in DOMAIN calls : calls[i].outcome = "returned"
    /\ \A k \in DOMAIN last.value :
         ~last.value[k].success =>
            /\ "success" \in last.value[k].keys
            /\ "error" \in last.value[k].keys
            /\ last.value[k].error.kind # "none"

\* C11: a scrape_job call whose browser session was started has, when it
\* ends, called the close of its page once (when it had opened one) and then
\* the close of the session once, which closed the context and the browser
\* and stopped the runtime unless one of its operations raised; the scrape
\* may have succeeded, been rejected by the rate limiter, been blocked,
\* failed the extraction or raised during the navigation.
C11_ClosedExactlyOnce ==
    /\ session.close_calls >= 1 =>
          session.page = "none" \/ session.page_closes = 1
    /\ (api.fn = "scrape_job" /\ spc # "idle") => session.close_calls = 0
    /\ (last.fn = "scrape_job" /\ last.inner # Raised("start failed")) =>
          /\ last.session.close_calls = 1
          /\ last.session.close_raised = "none" =>
                /\ last.session.context = "closed"
                /\ last.session.browser = "closed"
                /\ last.session.playwright = "stopped"
          /\ \/ last.session.page # "none" /\ last.session.page_closes = 1
             \/ last.session.page = "none" /\ last.session.page_closes = 0

\* a scrape_job call that the rate limiter rejected has ended with its page
\* closed once and its session closed once after that
C11_Witness ==
    /\ last.fn = "scrape_job"
    /\ last.outcome = "returned"
    /\ last.value[1].error = ErrorText("exception",
                                       "Daily request limit exceeded")
    /\ calls[Len(calls)].rejections = 1
    /\ last.session.page = "closed"
    /\ last.session.page_closes = 1
    /\ last.session.close_calls = 1
    /\ last.session.context = "closed"

\* the results are for the first URLs of the list, one each, in their order
ResultsFor(rs, urls) ==
    /\ Len(rs) <= Len(urls)
    /\ \A k \in DOMAIN rs : "url" \in rs[k].keys /\ rs[k].url = urls[k]

\* C12: scrape_multiple_jobs returns one result per URL, the i-th for the
\* i-th URL, and scrapes one URL at a time: while URL i is scraped the list
\* holds the results of the i - 1 URLs before it and of no other, and a URL
\* that fails leaves its result at its place and the batch goes on.
C12_OneResultPerUrlInOrder ==
    /\ api.fn = "scrape_multiple_jobs" /\ spc \notin {"idle", "start"} =>
          /\ Len(results) = api.i - 1
          /\ ResultsFor(results, api.urls)
          /\ spc # "loop" => api.i <= Len(api.urls) /\ job_url = api.urls[api.i]
    /\ last.fn = "scrape_multiple_jobs" /\ last.outcome = "returned" =>
          /\ Len(last.value) = Len(last.urls)
          /\ ResultsFor(last.value, last.urls)

\* a batch of two different URLs has returned: the first URL failed, the
\* second succeeded
C12_Witness ==
    /\ last.fn = "scrape_multiple_jobs"
    /\ last.outcome = "returned"
    /\ Len(last.urls) = 2
    /\ last.urls[1] # last.urls[2]
    /\ ~last.value[1].success
    /\ last.value[2].success

\* the scrape in progress is about to call wait_if_needed and the limiter has
\* counted max_daily_requests acquisitions on the present day
AtDailyCeiling ==
    /\ spc = "limiter"
    /\ last_reset >= Date(clock)
    /\ daily_requests >= config.max_daily_requests

DailyLimitError == ErrorText("exception", "Daily request limit exceeded")

\* C13: a scrape made when the daily ceiling is reached is rejected before
\* any network activity: its next step ends it with success = false and the
\* daily-limit error, and page.goto is not called for it.
C13_RejectedBeforeNavigation ==
    /\ [][AtDailyCeiling =>
            /\ spc' = "page_close"
            /\ ~result'.raised /\ ~result'.success
            /\ result'.error = DailyLimitError
            /\ result'.url = job_url
            /\ ops'.goto = 0]_vars
    /\ [](result.error = DailyLimitError =>
            /\ ops.goto = 0 /\ ops.inspections = 0 /\ ops.extractions = 0
            /\ page = NoPage)

\* the second URL of a batch has been rejected at the ceiling after the first
\* had passed the limiter
C13_Witness ==
    /\ spc = "return"
    /\ api.passes >= 1
    /\ daily_requests >= config.max_daily_requests
    /\ result.error = DailyLimitError
    /\ ops.goto = 0

\* scrape_job_description has a result to return
HasResult == spc \in {"page_close", "return"} /\ ~result.raised

\* one of the description selectors of the profile in use shows text
DescriptionShown ==
    LET sels == ConfigOf(site_key).description_selectors
    IN  \E i \in DOMAIN sels : ShowsText(page, sels[i])

\* C14: the result of a scrape that reached the extraction has success =
\* true exactly when the description extraction found text, whatever the
\* title, company and location are; and every result with success = true has
\* a non-empty description and no error, every result with success = false
\* has no description and an error.
C14_SuccessIffDescription ==
    HasResult =>
        /\ ops.extractions = 1 => (result.success <=> DescriptionShown)
        /\ result.success =>
              /\ result.description # None
              /\ result.description.val # <<>>
              /\ result.error = NoError
        /\ ~result.success =>
              /\ result.description = None
              /\ result.error.kind # "none"

\* a scrape has succeeded without a title, a company and a location
C14_Witness ==
    /\ HasResult
    /\ ops.extractions = 1
    /\ result.success
    /\ result.title = None /\ result.company = None /\ result.location = None

\* C15: scrape_job gives the same outcome on win32 (through
\* _run_scraper_in_thread) and elsewhere (directly): whatever left the
\* scraper, a result or an exception, a failure to start the browser
\* included, both paths return or both raise, with the same success, error
\* and fields.
C15_PathsEquivalent ==
    last.fn = "scrape_job" =>
        ScrapeJobOutcome("win32", last.urls[1], last.inner)
            = ScrapeJobOutcome("linux", last.urls[1], last.inner)

\* the value proxy_used is to have for a session started with the config
ProxyOf(c, s) ==
    IF c.use_proxy /\ c.proxy_list # <<>> THEN s.current_proxy
    ELSE "Direct connection"

\* C16: every result returned by scrape_job and every element of the list
\* returned by scrape_multiple_jobs has a proxy_used field, success or not;
\* it holds the proxy chosen at the start of the session, one of proxy_list,
\* when use_proxy is set and proxy_list is not empty, and 'Direct connection'
\* otherwise.
C16_ProxyUsedEverywhere ==
    (last.outcome = "returned") =>
        \A k \in DOMAIN last.value :
            /\ "proxy_used" \in last.value[k].keys
            /\ last.value[k].proxy_used = ProxyOf(config, last.session)
            /\ (config.use_proxy /\ config.proxy_list # <<>>) =>
                  \E i \in DOMAIN config.proxy_list :
                      last.value[k].proxy_used = config.proxy_list[i]

\* the challenge handler of the scrape in progress has used up its attempts
\* and returned false
ChallengeExhausted == ops.cf_done /\ ~ops.cloudflare_success /\ ~ops.cf_error

\* C17: when the challenge handler uses up its attempts and returns false
\* the scrape goes on: the modals are dismissed and, unless a page operation
\* of the scrolling raises, the fields extracted, and the result has success
\* = true exactly when the description extraction found text.
C17_ExhaustedChallengeGoesOn ==
    ChallengeExhausted =>
        /\ ops.attempt = max_attempts
        /\ spc \in {"modals", "extract", "page_close", "return"}
        /\ spc \in {"page_close", "return"} => ops.modals = 1
        /\ spc = "page_close" => ~result.raised
        /\ (HasResult /\ ~ops.page_error) =>
              /\ ops.extractions = 1
              /\ result.success <=> DescriptionShown
              /\ result.success => result.error = NoError
              /\ ~result.success => result.error.kind = "extraction_failed"

\* a scrape whose challenge handler returned false has succeeded
C17_Witness ==
    /\ ChallengeExhausted
    /\ spc = "return"
    /\ ops.cf_inspections = max_attempts
    /\ result.success

\* C18: a browser session (context and page) belongs to one scrape: it is
\* made for it, serves no other scrape and is closed before the result of
\* the scrape is returned, for scrape_job and for each URL of
\* scrape_multiple_jobs.
C18_SessionOwnedByOneScrape ==
    /\ session.page_closes <= 1
    /\ (api.fn = "scrape_multiple_jobs" /\ spc = "loop" /\ Len(results) >= 1) =>
          session.context # "open" /\ session.page # "open"
    /\ last.outcome = "returned" =>
          last.session.context # "open" /\ last.session.page # "open"

----------------------------------------------------------------------------
(* More properties of the rate limiter *)

\* every timestamp of the window is less than an hour older than the clock
WindowFresh ==
    \A k \in DOMAIN request_history : request_history[k] > clock - HOUR

\* a call has made its hourly check at this instant
JustChecked == \E p \in Callers : pc[p] # "idle" /\ now[p] = clock

\* a call has recorded its acquisition at this instant
JustRecorded ==
    /\ log # <<>>
    /\ log[Len(log)].outcome = "ok"
    /\ log[Len(log)].ret = clock
    /\ \A p \in Callers : pc[p] = "idle"

\* C19: at every hourly check, and when wait_if_needed has recorded an
\* acquisition, every timestamp of request_history is less than 60 minutes
\* older than the present time, the timestamp recorded by a call that took
\* the hourly wait and the jitter included.
C19_WindowFresh ==
    (JustChecked \/ JustRecorded) => WindowFresh

InJitterRange(d) == config.min_delay <= d /\ d <= config.max_delay

\* C20: every wait_if_needed call that returns normally has slept a jitter
\* between min_delay and max_delay, under both budgets as well; the jitter
\* comes after the hourly wait, if any, and before the acquisition is
\* recorded; a call rejected by the daily ceiling sleeps no jitter.
C20_JitterAlways ==
    /\ \A i \in DOMAIN log :
         LET e == log[i]
         IN  /\ e.outcome = "ok" =>
                  /\ InJitterRange(e.delay)
                  /\ e.resumed >= e.start + e.wait
                  /\ e.ret >= e.resumed + e.delay
             /\ e.outcome = "rejected" =>
                  e.delay = 0 /\ e.wait = 0 /\ e.ret = e.start
    /\ \A p \in Callers :
         /\ pc[p] # "idle" =>
                request_history = InWindow(cur[p].pre, now[p])
         /\ pc[p] = "hourly_sleep" => cur[p].delay = 0
         /\ pc[p] = "jitter_sleep" =>
                /\ InJitterRange(cur[p].delay)
                /\ wake[p] = cur[p].resumed + cur[p].delay
                /\ cur[p].resumed >= now[p] + cur[p].wait

\* with a least jitter above zero, a call under both budgets and a call that
\* took the hourly wait have both returned
C20_Witness ==
    /\ config.min_delay > 0
    /\ \E i \in DOMAIN log :
         log[i].outcome = "ok" /\ log[i].wait = 0 /\ log[i].pre = <<>>
    /\ \E i \in DOMAIN log :
         log[i].outcome = "ok" /\ log[i].wait > 0 /\ log[i].delay > 0

\* the calendar day of an instant
DayOf(t) == t \div DAY

\* the call that enters in this step is rejected
RejectedNow == Len(log') = Len(log) + 1 /\ log'[Len(log')].outcome = "rejected"

\* this step is the first step of a wait_if_needed call of caller p: the
\* call reads the time, rolls the day over, checks the ceiling and either
\* raises or goes to sleep
EntersLimiter(p) ==
    /\ pc[p] = "idle"
    /\ pc'[p] # "idle" \/ (RejectedNow /\ log'[Len(log')].caller = p)

\* C21: a wait_if_needed call that finds the present date different from the
\* stored reset date sets daily_requests to 0 and the reset date to the
\* present date before it checks the ceiling, so that a limiter at its
\* ceiling admits calls again on the next day; a call that finds the date
\* unchanged does not reset daily_requests.
C21_DailyReset ==
    [][\A p \in Callers :
         EntersLimiter(p) =>
            IF DayOf(clock) # last_reset
              THEN /\ last_reset' = DayOf(clock)
                   /\ daily_requests' = 0
                   /\ RejectedNow <=> config.max_daily_requests = 0
              ELSE /\ last_reset' = last_reset
                   /\ daily_requests' = daily_requests
                   /\ RejectedNow <=>
                        daily_requests >= config.max_daily_requests]_vars

\* a limiter that rejected a call at its ceiling on one day has admitted a
\* call on the next day
C21_Witness ==
    \E i, j \in DOMAIN log :
        /\ i < j
        /\ log[i].outcome = "rejected"
        /\ config.max_daily_requests >= 1
        /\ log[j].outcome = "ok"
        /\ DayOf(log[j].start) = DayOf(log[i].start) + 1

\* the challenge indicators
ChallengeIndicators ==
    <<<<"just", "a", "moment">>, <<"checking", "your", "browser">>,
      <<"cloudflare">>, <<"ray", "id">>, <<"cf-browser-verification">>,
      <<"please", "wait">>>>

\* the page in front of the challenge handler shows a challenge indicator in
\* its title or its content
ShowsChallenge ==
    \/ AnyIn(ChallengeIndicators, TitleOf(page))
    \/ AnyIn(ChallengeIndicators, ContentOf(page))

\* C22: handle_cloudflare_verification ends after at most 6 inspections of
\* the page: it returns true at the first inspection that finds no challenge
\* indicator in the title and the content, waits 5000 ms after each
\* inspection that finds one, returns false after 6 inspections that all
\* found one, and returns false when an inspection raises.
C22_ChallengeHandlerBounded ==
    /\ ops.cf_inspections <= 6
    /\ ops.attempt <= 6
    /\ ops.cf_waited_ms = 5000 * ops.attempt
    /\ (spc = "cloudflare" /\ ops.attempt < 6) =>
          /\ ~ops.cf_done
          /\ ops.cf_inspections = ops.attempt
    /\ (ops.cf_done /\ ops.cloudflare_success) =>
          /\ ~ShowsChallenge
          /\ ops.cf_inspections = ops.attempt + 1
    /\ (ops.cf_done /\ ~ops.cloudflare_success) =>
          \/ ops.cf_error /\ ops.cf_inspections = ops.attempt + 1
          \/ ~ops.cf_error /\ ops.attempt = 6 /\ ops.cf_inspections = 6
    /\ ops.cf_done => spc \in {"modals", "extract", "page_close", "return"}

\* the handler has returned true at its third inspection of a page whose
\* challenge showed in the content only
C22_Witness ==
    /\ ops.cf_done /\ ops.cloudflare_success
    /\ ops.cf_inspections = 3
    /\ ops.cf_waited_ms = 10000
    /\ page.marker = "content"

\* C23: when the challenge does not clear within the poll budget (the
\* challenge handler returns false), the result of the scrape records
\* ChallengeTimeout, whether the extraction that follows succeeds or fails.
C23_ChallengeTimeoutRecorded ==
    (HasResult /\ ChallengeExhausted /\ ops.extractions = 1) =>
        /\ "error" \in result.keys
        /\ result.error.kind = "challenge_timeout"

----------------------------------------------------------------------------
(* More properties of the extraction engine *)

\* the value the fallback rule gives for the selectors on the page: the
\* trimmed text of the first usable selector, or nothing
FallbackValue ==
    IF UsableSelectors = {} THEN None
    ELSE Some(Trimmed(dom[selectors[FirstUsable]].text))

\* C24: title, company and location (extract_text_by_selectors) follow the
\* fallback rule of the description (extract_text_by_selectors_with_debug):
\* a selector whose first match is visible with empty trimmed text does not
\* end the search, and the value of a field is absent or a non-empty trimmed
\* text.
C24_SameFallbackRule ==
    extracted # NoResult =>
        /\ extracted.text = FallbackValue
        /\ extracted.plain = FallbackValue
        /\ extracted.plain # None => extracted.plain.val # <<>>

----------------------------------------------------------------------------
(* More properties of the scrapes *)

\* the trace has an entry for each of the n selectors and its entries are in
\* the order of the selectors
CoversInOrder(tr, n) ==
    /\ \A i \in 1..n : \E k \in DOMAIN tr : tr[k].idx = i
    /\ \A k \in DOMAIN tr : tr[k].idx \in 1..n
    /\ \A k, l \in DOMAIN tr : k < l => tr[k].idx <= tr[l].idx

\* C25: when no description selector of the profile in use yields visible
\* text that is not empty, the result has success = false and its error
\* carries the whole trace, with at least one entry for every description
\* selector of the profile, in the order of the selectors.
C25_FailureCarriesTrace ==
    (HasResult /\ ops.extractions = 1 /\ ~DescriptionShown) =>
        /\ ~result.success
        /\ result.error.kind = "extraction_failed"
        /\ CoversInOrder(result.error.trace,
                         Len(ConfigOf(site_key).description_selectors))

\* an extraction has failed on a page whose description element is visible
\* but blank: the trace tells so and tells of the selectors not found
C25_Witness ==
    /\ HasResult /\ ops.extractions = 1
    /\ ~result.success
    /\ \E k \in DOMAIN result.error.trace : result.error.trace[k].kind = "empty"
    /\ \E k \in DOMAIN result.error.trace :
          result.error.trace[k].kind = "not_found"

\* the first modal selector whose first element is visible and whose click
\* is made without an error, 0 if there is none
FirstClickable ==
    LET sels == ConfigOf(site_key).modal_selectors
        ok == {i \in DOMAIN sels :
                  modal_page.answers[sels[i]] \in {"clicked", "wait_raises"}}
    IN  IF ok = {} THEN 0 ELSE CHOOSE i \in ok : \A j \in ok : i <= j

\* C26: close_modals tries the modal selectors of the profile in order and
\* clicks at most one element, that of the first selector whose first
\* element is visible and whose click succeeds, and tries no selector after
\* it; it returns true exactly when such a click happened, sends Escape
\* exactly when no click happened, and never raises.
C26_CloseModalsOneClick ==
    closed.called =>
        /\ ~closed.raised
        /\ \A k \in DOMAIN closed.tried : closed.tried[k] = k
        /\ Len(closed.clicked) <= 1
        /\ IF FirstClickable = 0
             THEN closed.clicked = <<>>
             ELSE /\ closed.clicked = <<FirstClickable>>
                  /\ Len(closed.tried) = FirstClickable
        /\ closed.modal_closed <=> closed.clicked # <<>>
        /\ closed.escape <=> closed.clicked = <<>>

\* C27: a scrape is ended as access-blocked only if the title or the content
\* of its page holds, in any case of the letters, one of the five hard-block
\* indicators; a page that holds none of them goes on to the challenge
\* handling and the extraction.
C27_OnlyFiveIndicatorsBlock ==
    /\ (HasResult /\ result.access_blocked) => SawHardBlock
    /\ (ops.inspections = 1 /\ ~ops.page_error /\ ~SawHardBlock) =>
          spc = "cloudflare" \/ ops.cf_inspections >= 1

\* C28: there is no retry inside the engine: every call of
\* scrape_job_description calls the rate limiter exactly once and navigates
\* to its URL at most once, whatever its outcome, so that a scrape that fails
\* after the limiter has used one unit of the budget.
C28_NoRetryWhateverOutcome ==
    spc = "return" => ops.limiter = 1 /\ ops.goto <= 1

\* C29: the cleanup of the session covers a failed start as well: when
\* start has failed after it had started the automation runtime or launched
\* the browser, then by the time scrape_job returns or raises the browser is
\* closed and the runtime stopped.
C29_FailedStartCleanedUp ==
    (last.fn = "scrape_job" /\ last.inner = Raised("start failed")) =>
        /\ last.session.context # "open"
        /\ last.session.browser # "open"
        /\ last.session.playwright # "started"

\* C30: a wait_if_needed call that the daily ceiling rejects on the date
\* that is stored as the reset date leaves the limiter as it was:
\* request_history, daily_requests and last_reset are after the call what
\* they were before it.
C30_RejectionLeavesLimiter ==
    [][\A p \in Callers :
         (EntersLimiter(p) /\ RejectedNow /\ DayOf(clock) = last_reset) =>
            UNCHANGED <<request_history, daily_requests, last_reset>>]_vars

\* a call has been rejected on the day of an earlier request that was more
\* than an hour old by then, and the request is still in the window
C30_Witness ==
    \E i \in DOMAIN log :
        /\ log[i].outcome = "rejected"
        /\ log[i].pre # <<>>
        /\ log[i].pre[1] + HOUR < log[i].start
        /\ DayOf(log[i].pre[1]) = DayOf(log[i].start)
        /\ log[i].pre[1] \in SeqRange(request_history)

====
